---- MODULE Spec2Model ----
(***************************************************************************)
(* Model of the airrohr-mqtt bridge (src/src/main.rs): the rocket handler  *)
(* `api`, the Bridge registry behind Arc<Mutex<Bridge>> and the MQTT       *)
(* publishes it makes.                                                     *)
(*                                                                         *)
(* Strings built with format!() are modelled as sequences of their pieces, *)
(* concatenated with \o, so that two topics are equal exactly when the     *)
(* formatted pieces are.                                                   *)
(***************************************************************************)
EXTENDS Integers, Sequences, FiniteSets, TLC

(***************************************************************************)
(* Bounds and input alphabets                                              *)
(***************************************************************************)
\* longest sensordatavalues list of a request in every specification but SpecWide
MaxLen == 2
\* longest sensordatavalues list of a request in SpecWide
MaxLenWide == 3

\* rocket workers that may be inside `api` at the same time
Workers == {"w1", "w2"}
OneWorker == {"w1"}

Esp8266Ids == {"abc123", "def456"}
OneId == {"abc123"}
SoftwareVersions == {"NRZ-2020-133"}
TwoValues == {"7.5", "-70"}
Values == {"7.5"}
\* a key sent along with the HTTP request; `api` has no parameter that reads it
Keys == {"k1", "k2"}
OneKey == {"k1"}

\* Option::None of a string, of a struct
None == "None"
NoRecord == [none |-> TRUE]
\* a request body serde_json::from_str rejects
Malformed == [malformed |-> TRUE]

(***************************************************************************)
(* Bridge.sensors: the catalog read from the definitions file at start-up  *)
(***************************************************************************)
sensors ==
    [vt \in {"SDS_P2", "signal", "temperature"} |->
        CASE vt = "SDS_P2" -> [class |-> "pm25", unit |-> "ug/m3", value_template |-> "{{ value }}"]
          [] vt = "signal" -> [class |-> "signal_strength", unit |-> "dBm", value_template |-> "{{ value }}"]
          [] vt = "temperature" -> [class |-> "temperature", unit |-> "C", value_template |-> "{{ value }}"]]

\* value_types a request may carry: "max_micro" is not in the catalog
TwoTypes == {"SDS_P2", "signal", "max_micro"}
AllTypes == {"SDS_P2", "signal", "temperature", "max_micro"}

RECURSIVE SeqsUpTo(_, _)
SeqsUpTo(S, n) ==
    IF n = 0 THEN {<<>>}
    ELSE LET shorter == SeqsUpTo(S, n - 1)
         IN  shorter \cup {Append(s, x) : s \in {q \in shorter : Len(q) = n - 1}, x \in S}

SensorDataValues(Types) == [value_type : Types, value : Values]

\* the same with the readings drawn from Vals
MeasurementsOf(Ids, Types, Vals, n) ==
    [airrohr : [esp8266id : Ids, software_version : SoftwareVersions],
     sensordatavalues : SeqsUpTo([value_type : Types, value : Vals], n)]

\* the request bodies that parse (struct Measurement), and the one that does not
Measurements(Ids, Types, n) ==
    [airrohr : [esp8266id : Ids, software_version : SoftwareVersions],
     sensordatavalues : SeqsUpTo(SensorDataValues(Types), n)]

Bodies(Ids, Types, n) == Measurements(Ids, Types, n) \cup {Malformed}

(***************************************************************************)
(* impl Airrohr, impl Entity, impl Device                                  *)
(***************************************************************************)
\* mutant: the device name does not depend on the id
name_fixed(a) == <<"airrohr-", "abc123">>

name(a) == <<"airrohr-", a.esp8266id>>

\* mutant: the namespace is left out of the state topic
state_topic_no_namespace(a, sensor) == name(a) \o <<"/", sensor>>

state_topic(a, sensor) == <<"airrohr/">> \o name(a) \o <<"/", sensor>>

Entity_new(a, sensor, device_class, unit_of_measurement, value_template) ==
    LET id_name == name(a) \o <<"-", sensor>>
    IN  IF device_class = None \/ unit_of_measurement = None \/ value_template = None
        THEN NoRecord
        ELSE [name |-> id_name,
              state_topic |-> state_topic(a, sensor),
              unique_id |-> id_name,
              device_class |-> device_class,
              unit_of_measurement |-> unit_of_measurement,
              value_template |-> value_template]

Device_new(a) ==
    [identifiers |-> << name(a),
                        <<"Feinstaubsensor-", a.esp8266id>>,
                        <<"Particulate Matter ", a.esp8266id>> >>,
     manufacturer |-> "Open Knowledge Lab Stuttgart a.o. (Code for Germany)",
     model |-> "Particulate matter sensor",
     name |-> name(a),
     sw_version |-> a.software_version]

\* serde_json::to_string(&Config): the entity's fields are flattened next to
\* "device"; a struct of strings always serializes, so the Err arm of
\* advertise (line 193) is never taken.
to_string(config) ==
    [device |-> config.device,
     name |-> config.entity.name,
     state_topic |-> config.entity.state_topic,
     unique_id |-> config.entity.unique_id,
     device_class |-> config.entity.device_class,
     unit_of_measurement |-> config.entity.unit_of_measurement,
     value_template |-> config.entity.value_template]

(***************************************************************************)
(* impl Bridge: the pure parts                                             *)
(***************************************************************************)
BridgeDev_new == [sensors |-> {}]

\* mutant: no record is made for an unknown device
update_device_skips(devs, measurement) == devs

\* mutant: insert instead of entry().or_insert_with: a known device starts over
update_device_resets(devs, measurement) ==
    LET n == name(measurement.airrohr)
    IN  [d \in DOMAIN devs \cup {n} |-> IF d = n THEN BridgeDev_new ELSE devs[d]]

update_device(devs, measurement) ==
    LET n == name(measurement.airrohr)
    IN  IF n \in DOMAIN devs THEN devs ELSE devs @@ (n :> BridgeDev_new)

\* mutant: the registry is never consulted
seen_never(devs, a, sdv) == FALSE

seen(devs, a, sdv) ==
    IF name(a) \in DOMAIN devs THEN sdv.value_type \in devs[name(a)].sensors ELSE FALSE

\* mutant: no catalog test
supported_all(v) == TRUE

supported(v) == v.value_type \in DOMAIN sensors

device_class(v) ==
    IF v.value_type \in DOMAIN sensors THEN sensors[v.value_type].class ELSE None

unit_of_measurement(v) ==
    IF v.value_type \in DOMAIN sensors THEN sensors[v.value_type].unit ELSE None

value_template(v) ==
    IF v.value_type \in DOMAIN sensors THEN sensors[v.value_type].value_template ELSE None

\* the Message advertise hands to mqtt.publish
advertise_message(a, v, entity) ==
    [topic |-> <<"homeassistant/sensor/">> \o name(a) \o <<"/", v.value_type, "/config">>,
     payload |-> to_string([device |-> Device_new(a), entity |-> entity]),
     qos |-> 1]

\* mutant: the announced value_type is not recorded
advertise_insert_forgets(devs, a, v) == devs

\* the registry after advertise's publish returned
advertise_insert(devs, a, v) ==
    IF name(a) \in DOMAIN devs
    THEN [devs EXCEPT ![name(a)].sensors = @ \cup {v.value_type}]
    ELSE devs

\* the Message send_data hands to mqtt.publish
send_data_message(a, v) ==
    [topic |-> state_topic(a, v.value_type), payload |-> v.value, qos |-> 0]

(***************************************************************************)
(* fn api: where control goes, as [pc, status]                             *)
(***************************************************************************)
Goto(p) == [pc |-> p, status |-> None]
ReturnWith(st) == [pc |-> "return", status |-> st]

\* mutant: an entry already announced is skipped instead of sent
loop_head_skips_seen(devs, measurement, idx) ==
    IF idx > Len(measurement.sensordatavalues)
    THEN ReturnWith("Ok")
    ELSE LET v == measurement.sensordatavalues[idx]
         IN  IF ~supported(v) THEN Goto("continue")
             ELSE IF ~seen(devs, measurement.airrohr, v) THEN Goto("advertise")
             ELSE Goto("continue")

\* the for loop's head, lines 233-239: the list is exhausted, the entry is
\* not supported (continue), or the seen test picks advertise or send_data
loop_head(devs, measurement, idx) ==
    IF idx > Len(measurement.sensordatavalues)
    THEN ReturnWith("Ok")
    ELSE LET v == measurement.sensordatavalues[idx]
         IN  IF ~supported(v) THEN Goto("continue")
             ELSE IF ~seen(devs, measurement.airrohr, v) THEN Goto("advertise")
             ELSE Goto("send_data")

\* mutant: advertise's result is dropped
after_advertise_swallows(is_err) == Goto("send_data")

\* `!seen && advertise(..) || send_data(..)`: advertise returning true ends
\* the request, returning false goes on to send_data
after_advertise(is_err) ==
    IF is_err THEN ReturnWith("InternalServerError") ELSE Goto("send_data")

\* mutant: send_data's result is dropped
after_send_data_swallows(is_err) == Goto("loop")

\* send_data returning true ends the request, false takes the next entry
after_send_data(is_err) ==
    IF is_err THEN ReturnWith("InternalServerError") ELSE Goto("loop")

(***************************************************************************)
(* State                                                                   *)
(***************************************************************************)
VARIABLES
    devices,      \* Bridge.devices: device name -> BridgeDev
    mutex,        \* the worker holding the Mutex<Bridge>, or None
    pc,           \* each worker's position in `api`
    request,      \* the HTTP request a worker is handling: [key, data]
    i,            \* index of `v` in the for loop
    status,       \* the Status the worker is about to return
    log,          \* the mqtt.publish calls of the current request, with results
    hBefore,      \* history: Bridge.devices as it was when the worker took the mutex
    hDiscovery,   \* history: number of discovery publish calls per (id, value_type)
    hDiscoveryOk, \* history: the (id, value_type) whose discovery publish succeeded
    hDuring,      \* history: discovery calls others made while the worker waited for the mutex
    hAccepted,    \* history: one earlier request that returned Ok, or NoRecord
    hFailed,      \* history: one earlier request whose state publish failed, and
                  \* the device's announced-set when it returned
    hFirstKey     \* history: the key of the first request of each device

vars == <<devices, mutex, pc, request, i, status, log,
          hBefore, hDiscovery, hDiscoveryOk, hDuring, hAccepted, hFailed, hFirstKey>>

hist == <<hBefore, hDiscovery, hDiscoveryOk, hDuring, hAccepted, hFailed, hFirstKey>>

NoRequest == [key |-> None, data |-> NoRecord]

Init ==
    /\ devices = <<>>
    /\ mutex = None
    /\ pc = [t \in Workers |-> "idle"]
    /\ request = [t \in Workers |-> NoRequest]
    /\ i = [t \in Workers |-> 0]
    /\ status = [t \in Workers |-> None]
    /\ log = [t \in Workers |-> <<>>]
    /\ hBefore = [t \in Workers |-> <<>>]
    /\ hDiscovery = [p \in Esp8266Ids \X AllTypes |-> 0]
    /\ hDiscoveryOk = {}
    /\ hDuring = [t \in Workers |-> {}]
    /\ hAccepted = NoRecord
    /\ hFailed = [data |-> NoRecord, announced |-> {}]
    /\ hFirstKey = [d \in Esp8266Ids |-> None]

(***************************************************************************)
(* fn api, one action per step                                             *)
(***************************************************************************)
\* rocket dispatches a POST /api to worker t
Call(t) ==
    /\ pc[t] = "idle"
    /\ pc' = [pc EXCEPT ![t] = "lock"]
    /\ UNCHANGED <<devices, mutex, request, i, status, log, hist>>

\* mutant: the guard is taken without waiting for its holder
Lock_unguarded(t) ==
    /\ pc[t] = "lock"
    /\ mutex' = t
    /\ pc' = [pc EXCEPT ![t] = "parse"]
    /\ hBefore' = [hBefore EXCEPT ![t] = devices]
    /\ UNCHANGED <<devices, request, i, status, log,
                   hDiscovery, hDiscoveryOk, hDuring, hAccepted, hFailed, hFirstKey>>

\* dev_ref.lock(): blocks while another worker holds the guard.  No step of
\* api panics, so the mutex is never poisoned and the Err arm is not taken.
Lock(t) ==
    /\ pc[t] = "lock"
    /\ mutex = None
    /\ mutex' = t
    /\ pc' = [pc EXCEPT ![t] = "parse"]
    /\ hBefore' = [hBefore EXCEPT ![t] = devices]
    /\ UNCHANGED <<devices, request, i, status, log,
                   hDiscovery, hDiscoveryOk, hDuring, hAccepted, hFailed, hFirstKey>>

\* mutant: the parse error is dropped and the request answered with Ok
Parse_drops_error(t, bodies, keys) ==
    /\ pc[t] = "parse"
    /\ \E data \in bodies, key \in keys :
        /\ request' = [request EXCEPT ![t] = [key |-> key, data |-> data]]
        /\ IF data = Malformed
           THEN /\ status' = [status EXCEPT ![t] = "Ok"]
                /\ pc' = [pc EXCEPT ![t] = "return"]
                /\ UNCHANGED hFirstKey
           ELSE /\ pc' = [pc EXCEPT ![t] = "update"]
                /\ hFirstKey' =
                     IF hFirstKey[data.airrohr.esp8266id] = None
                     THEN [hFirstKey EXCEPT ![data.airrohr.esp8266id] = key]
                     ELSE hFirstKey
                /\ UNCHANGED status
    /\ UNCHANGED <<devices, mutex, i, log,
                   hBefore, hDiscovery, hDiscoveryOk, hDuring, hAccepted, hFailed>>

\* serde_json::from_str(data).  The body and key came with the call; they are
\* drawn here, where the handler first reads the body.
Parse(t, bodies, keys) ==
    /\ pc[t] = "parse"
    /\ \E data \in bodies, key \in keys :
        /\ request' = [request EXCEPT ![t] = [key |-> key, data |-> data]]
        /\ IF data = Malformed
           THEN /\ status' = [status EXCEPT ![t] = "BadRequest"]
                /\ pc' = [pc EXCEPT ![t] = "return"]
                /\ UNCHANGED hFirstKey
           ELSE /\ pc' = [pc EXCEPT ![t] = "update"]
                /\ hFirstKey' =
                     IF hFirstKey[data.airrohr.esp8266id] = None
                     THEN [hFirstKey EXCEPT ![data.airrohr.esp8266id] = key]
                     ELSE hFirstKey
                /\ UNCHANGED status
    /\ UNCHANGED <<devices, mutex, i, log,
                   hBefore, hDiscovery, hDiscoveryOk, hDuring, hAccepted, hFailed>>

\* devices.update_device(&device_measurement), then the loop starts
Update(t) ==
    /\ pc[t] = "update"
    /\ devices' = update_device(devices, request[t].data)
    /\ i' = [i EXCEPT ![t] = 1]
    /\ pc' = [pc EXCEPT ![t] = "loop"]
    /\ UNCHANGED <<mutex, request, status, log, hist>>

\* the head of the for loop
Loop(t) ==
    /\ pc[t] = "loop"
    /\ LET next == loop_head(devices, request[t].data, i[t])
       IN  IF next.pc = "continue"
           THEN /\ i' = [i EXCEPT ![t] = @ + 1]
                /\ UNCHANGED <<pc, status>>
           ELSE /\ pc' = [pc EXCEPT ![t] = next.pc]
                /\ status' = [status EXCEPT ![t] = next.status]
                /\ UNCHANGED i
    /\ UNCHANGED <<devices, mutex, request, log, hist>>

\* devices.advertise(&airrohr, v) with either result of mqtt.publish.  With
\* watch, the history notes the call for the workers waiting in lock().
Advertise(t, watch) ==
    /\ pc[t] = "advertise"
    /\ LET a == request[t].data.airrohr
           v == request[t].data.sensordatavalues[i[t]]
           entity == Entity_new(a, v.value_type, device_class(v),
                                unit_of_measurement(v), value_template(v))
       IN  IF entity = NoRecord
           THEN /\ pc' = [pc EXCEPT ![t] = after_advertise(FALSE).pc]
                /\ status' = [status EXCEPT ![t] = after_advertise(FALSE).status]
                /\ UNCHANGED <<devices, log, hDiscovery, hDiscoveryOk, hDuring>>
           ELSE \E is_err \in BOOLEAN :
                /\ log' = [log EXCEPT ![t] =
                             Append(@, [msg |-> advertise_message(a, v, entity),
                                        is_err |-> is_err])]
                /\ devices' = advertise_insert(devices, a, v)
                /\ hDiscovery' = [hDiscovery EXCEPT ![<<a.esp8266id, v.value_type>>] = @ + 1]
                /\ hDiscoveryOk' = IF is_err THEN hDiscoveryOk
                                   ELSE hDiscoveryOk \cup {<<a.esp8266id, v.value_type>>}
                /\ hDuring' = [u \in Workers |->
                                 IF watch /\ u # t /\ pc[u] = "lock"
                                 THEN hDuring[u] \cup {<<a.esp8266id, v.value_type>>}
                                 ELSE hDuring[u]]
                /\ pc' = [pc EXCEPT ![t] = after_advertise(is_err).pc]
                /\ status' = [status EXCEPT ![t] = after_advertise(is_err).status]
    /\ UNCHANGED <<mutex, request, i, hBefore, hAccepted, hFailed, hFirstKey>>

\* devices.send_data(&airrohr, v) with either result of mqtt.publish
SendData(t) ==
    /\ pc[t] = "send_data"
    /\ LET a == request[t].data.airrohr
           v == request[t].data.sensordatavalues[i[t]]
       IN  \E is_err \in BOOLEAN :
            /\ log' = [log EXCEPT ![t] =
                         Append(@, [msg |-> send_data_message(a, v), is_err |-> is_err])]
            /\ pc' = [pc EXCEPT ![t] = after_send_data(is_err).pc]
            /\ status' = [status EXCEPT ![t] = after_send_data(is_err).status]
            /\ i' = [i EXCEPT ![t] = IF after_send_data(is_err).pc = "loop" THEN @ + 1 ELSE @]
    /\ UNCHANGED <<devices, mutex, request, hist>>

\* the Status is returned and the MutexGuard dropped.  With remember =
\* "accepted" the history may keep a request that returned Ok, with "failed"
\* one whose last publish, a state publish, failed.
Return(t, remember) ==
    /\ pc[t] = "return"
    /\ mutex' = IF mutex = t THEN None ELSE mutex
    /\ pc' = [pc EXCEPT ![t] = "idle"]
    /\ request' = [request EXCEPT ![t] = NoRequest]
    /\ i' = [i EXCEPT ![t] = 0]
    /\ status' = [status EXCEPT ![t] = None]
    /\ log' = [log EXCEPT ![t] = <<>>]
    /\ hBefore' = [hBefore EXCEPT ![t] = <<>>]
    /\ hDuring' = [hDuring EXCEPT ![t] = {}]
    /\ \/ UNCHANGED <<hAccepted, hFailed>>
       \/ /\ remember = "accepted"
          /\ status[t] = "Ok"
          /\ hAccepted' = request[t].data
          /\ UNCHANGED hFailed
       \/ /\ remember = "failed"
          /\ status[t] = "InternalServerError"
          /\ log[t] # <<>>
          /\ log[t][Len(log[t])].is_err
          /\ log[t][Len(log[t])].msg.qos = 0
          /\ hFailed' = [data |-> request[t].data,
                         announced |-> devices[name(request[t].data.airrohr)].sensors]
          /\ UNCHANGED hAccepted
    /\ UNCHANGED <<devices, hDiscovery, hDiscoveryOk, hFirstKey>>

Step(t, bodies, keys, remember, watch) ==
    \/ Call(t)
    \/ Lock(t)
    \/ Parse(t, bodies, keys)
    \/ Update(t)
    \/ Loop(t)
    \/ Advertise(t, watch)
    \/ SendData(t)
    \/ Return(t, remember)

\* two workers, two devices
Next == \E t \in Workers : Step(t, Bodies(Esp8266Ids, TwoTypes, MaxLen), OneKey, "no", FALSE)

Spec == Init /\ [][Next]_vars

\* two workers, one device; the history notes what happens while a worker waits
NextWait == \E t \in Workers : Step(t, Bodies(OneId, TwoTypes, MaxLen), OneKey, "no", TRUE)

SpecWait == Init /\ [][NextWait]_vars

\* one worker, one device, every catalog entry, longer lists
NextWide == \E t \in OneWorker : Step(t, Bodies(OneId, AllTypes, MaxLenWide), OneKey, "no", FALSE)

SpecWide == Init /\ [][NextWide]_vars

\* one worker, one device; the history keeps an accepted request
NextReplay == \E t \in OneWorker : Step(t, Bodies(OneId, TwoTypes, MaxLen), OneKey, "accepted", FALSE)

SpecReplay == Init /\ [][NextReplay]_vars

\* one worker, one device; the history keeps a request whose state publish failed
NextRetry == \E t \in OneWorker : Step(t, Bodies(OneId, TwoTypes, MaxLen), OneKey, "failed", FALSE)

SpecRetry == Init /\ [][NextRetry]_vars

\* one worker, two devices, two readings
NextValues ==
    \E t \in OneWorker :
        Step(t, MeasurementsOf(Esp8266Ids, TwoTypes, TwoValues, MaxLen) \cup {Malformed},
             OneKey, "no", FALSE)

SpecValues == Init /\ [][NextValues]_vars

\* one worker, one device, requests carrying either key
NextKey == \E t \in OneWorker : Step(t, Bodies(OneId, TwoTypes, MaxLen), Keys, "no", FALSE)

SpecKey == Init /\ [][NextKey]_vars

(***************************************************************************)
(* Vocabulary of the properties                                            *)
(***************************************************************************)
DiscoveryTopic(id, vt) == <<"homeassistant/sensor/", "airrohr-", id, "/", vt, "/config">>
StateTopic(id, vt) == <<"airrohr/", "airrohr-", id, "/", vt>>

\* worker t holds a request whose body parsed
WellFormed(t) == request[t].data # NoRecord /\ request[t].data # Malformed
\* worker t is about to return its Status, the guard still held
AtReturn(t) == pc[t] = "return" /\ WellFormed(t)
\* worker t is between lock() and the drop of the guard
InApi(t) == pc[t] \notin {"idle", "lock"}

IdOf(t) == request[t].data.airrohr.esp8266id
Sdv(t) == request[t].data.sensordatavalues
\* positions of the request's entries with value_type vt
Entries(t, vt) == {k \in 1..Len(Sdv(t)) : Sdv(t)[k].value_type = vt}
\* positions in the request's publish log
Published(t, topic) == {k \in 1..Len(log[t]) : log[t][k].msg.topic = topic}
Failed(t) == {k \in 1..Len(log[t]) : log[t][k].is_err}
DiscoveryCalls(t) == {k \in 1..Len(log[t]) :
                        \E vt \in AllTypes : log[t][k].msg.topic = DiscoveryTopic(IdOf(t), vt)}
StateCalls(t) == {k \in 1..Len(log[t]) :
                    \E vt \in AllTypes : log[t][k].msg.topic = StateTopic(IdOf(t), vt)}
\* has_announced
AnnouncedIn(devs, id) ==
    IF <<"airrohr-", id>> \in DOMAIN devs THEN devs[<<"airrohr-", id>>].sensors ELSE {}
Announced(id) == AnnouncedIn(devices, id)
Catalog == DOMAIN sensors

(***************************************************************************)
(* C1: the discovery message of a (device, value_type) is published at     *)
(* most once over all requests of all workers, however often the           *)
(* value_type is reported, in one request or in many.                      *)
(***************************************************************************)
C1_DiscoveryAtMostOnce ==
    /\ \A p \in DOMAIN hDiscovery : hDiscovery[p] <= 1
    /\ \A t \in Workers : WellFormed(t) =>
          \A vt \in AllTypes : Cardinality(Published(t, DiscoveryTopic(IdOf(t), vt))) <= 1

\* a request reporting an announced value_type twice, none of them announced again
C1_Witness ==
    \E t \in Workers : AtReturn(t) /\ status[t] = "Ok" /\
        \E vt \in Catalog :
            /\ Cardinality(Entries(t, vt)) >= 2
            /\ hDiscovery[<<IdOf(t), vt>>] = 1
            /\ Published(t, DiscoveryTopic(IdOf(t), vt)) = {}

(***************************************************************************)
(* C2: when the discovery publish of (D,C) fails, C is not in D's          *)
(* announced-set after the request: has_announced(D,C) is still false.     *)
(***************************************************************************)
C2_FailedDiscoveryNotAnnounced ==
    \A t \in Workers : AtReturn(t) =>
        \A k \in Failed(t), vt \in AllTypes :
            log[t][k].msg.topic = DiscoveryTopic(IdOf(t), vt) => vt \notin Announced(IdOf(t))

(***************************************************************************)
(* C3: a request that returns Ok has published one state message for every *)
(* entry whose value_type is in the catalog, whether or not it also        *)
(* published the discovery message for it.                                 *)
(***************************************************************************)
C3_AcceptedPublishesState ==
    \A t \in Workers : (AtReturn(t) /\ status[t] = "Ok") =>
        \A vt \in Catalog :
            /\ Cardinality(Published(t, StateTopic(IdOf(t), vt))) = Cardinality(Entries(t, vt))
            /\ \A k \in Published(t, StateTopic(IdOf(t), vt)) : ~log[t][k].is_err

\* an accepted request with one value_type announced in it and one announced before
C3_Witness ==
    \E t \in Workers : AtReturn(t) /\ status[t] = "Ok" /\
        \E vt1, vt2 \in Catalog :
            /\ Entries(t, vt1) # {} /\ Entries(t, vt2) # {}
            /\ Published(t, DiscoveryTopic(IdOf(t), vt1)) # {}
            /\ Published(t, DiscoveryTopic(IdOf(t), vt2)) = {}
            /\ Published(t, StateTopic(IdOf(t), vt1)) # {}
            /\ Published(t, StateTopic(IdOf(t), vt2)) # {}

(***************************************************************************)
(* C4: replaying a measurement that an earlier request handled with Ok     *)
(* publishes no discovery message and at most one state message per        *)
(* supported entry; when none of these publishes fails it publishes        *)
(* exactly one per supported entry and returns Ok.                         *)
(***************************************************************************)
C4_IdempotentReplay ==
    \A t \in Workers : (AtReturn(t) /\ request[t].data = hAccepted) =>
        /\ DiscoveryCalls(t) = {}
        /\ \A vt \in Catalog :
              Cardinality(Published(t, StateTopic(IdOf(t), vt))) <= Cardinality(Entries(t, vt))
        /\ Failed(t) = {} =>
              /\ status[t] = "Ok"
              /\ \A vt \in Catalog :
                    Cardinality(Published(t, StateTopic(IdOf(t), vt)))
                        = Cardinality(Entries(t, vt))

\* a replay of an accepted measurement with two supported entries, accepted again
C4_Witness ==
    \E t \in Workers : AtReturn(t) /\ request[t].data = hAccepted /\ status[t] = "Ok" /\
        Cardinality({k \in 1..Len(Sdv(t)) : Sdv(t)[k].value_type \in Catalog}) >= 2 /\
        Len(log[t]) >= 2

(***************************************************************************)
(* C5: a failed publish, discovery or state, is the last publish of its    *)
(* request, and the request returns InternalServerError.                   *)
(***************************************************************************)
C5_FailureEndsRequest ==
    \A t \in Workers : \A k \in Failed(t) :
        /\ k = Len(log[t])
        /\ pc[t] = "return"
        /\ status[t] = "InternalServerError"

\* a discovery publish failed with supported entries still to come
C5_Witness ==
    \E t \in Workers : AtReturn(t) /\ Failed(t) # {} /\
        /\ \E vt \in Catalog : log[t][Len(log[t])].msg.topic = DiscoveryTopic(IdOf(t), vt)
        /\ i[t] < Len(Sdv(t))
        /\ Sdv(t)[i[t] + 1].value_type \in Catalog
        /\ Sdv(t)[i[t] + 1].value_type # Sdv(t)[i[t]].value_type

(***************************************************************************)
(* C6: a request whose body parses returns Ok exactly when none of its     *)
(* publishes failed, and InternalServerError otherwise.                    *)
(***************************************************************************)
C6_OkIffNoFailure ==
    \A t \in Workers : AtReturn(t) =>
        /\ status[t] \in {"Ok", "InternalServerError"}
        /\ status[t] = "Ok" <=> Failed(t) = {}

\* a request whose state publish failed after its discovery publish succeeded
C6_Witness ==
    \E t \in Workers : AtReturn(t) /\ status[t] = "InternalServerError" /\
        Len(log[t]) >= 2 /\ log[t][Len(log[t])].is_err /\
        \E vt \in Catalog : log[t][Len(log[t])].msg.topic = StateTopic(IdOf(t), vt)

(***************************************************************************)
(* C7: a new device reports three supported value_types and a publish      *)
(* fails while the second is processed: the first is in the announced-set, *)
(* the third is not and nothing was published for it, and the request      *)
(* returns InternalServerError.                                            *)
(***************************************************************************)
ThreeNew(t) ==
    /\ AtReturn(t)
    /\ <<"airrohr-", IdOf(t)>> \notin DOMAIN hBefore[t]
    /\ Len(Sdv(t)) = 3
    /\ \A k \in 1..3 : Sdv(t)[k].value_type \in Catalog
    /\ Cardinality({Sdv(t)[k].value_type : k \in 1..3}) = 3

FailedOnSecond(t) ==
    \E k \in Failed(t) :
        log[t][k].msg.topic \in {DiscoveryTopic(IdOf(t), Sdv(t)[2].value_type),
                                 StateTopic(IdOf(t), Sdv(t)[2].value_type)}

C7_FailureIsolation ==
    \A t \in Workers : (ThreeNew(t) /\ FailedOnSecond(t)) =>
        /\ Sdv(t)[1].value_type \in Announced(IdOf(t))
        /\ Sdv(t)[3].value_type \notin Announced(IdOf(t))
        /\ Published(t, DiscoveryTopic(IdOf(t), Sdv(t)[3].value_type)) = {}
        /\ Published(t, StateTopic(IdOf(t), Sdv(t)[3].value_type)) = {}
        /\ status[t] = "InternalServerError"

\* the failure on the second entry was its state publish
C7_Witness ==
    \E t \in Workers : ThreeNew(t) /\
        \E k \in Failed(t) : log[t][k].msg.topic = StateTopic(IdOf(t), Sdv(t)[2].value_type)

(***************************************************************************)
(* C8: an entry whose value_type is not in the catalog causes no publish   *)
(* and no entry in the announced-set, and a request with only such entries *)
(* returns Ok without any publish.                                         *)
(***************************************************************************)
C8_UnsupportedSkipped ==
    \A t \in Workers : WellFormed(t) =>
        /\ \A vt \in AllTypes \ Catalog :
              /\ Published(t, DiscoveryTopic(IdOf(t), vt)) = {}
              /\ Published(t, StateTopic(IdOf(t), vt)) = {}
              /\ vt \notin Announced(IdOf(t))
        /\ (pc[t] = "return" /\ \A k \in 1..Len(Sdv(t)) : Sdv(t)[k].value_type \notin Catalog)
              => (status[t] = "Ok" /\ log[t] = <<>>)

\* a request of two unsupported entries has been gone through
C8_Witness ==
    \E t \in Workers : AtReturn(t) /\ Len(Sdv(t)) = 2 /\ status[t] = "Ok" /\
        \A k \in 1..2 : Sdv(t)[k].value_type \notin Catalog

(***************************************************************************)
(* C9: calls of api are serialized: one worker at a time is between lock() *)
(* and the drop of the guard, every value_type a discovery publish was     *)
(* made for stays in the device's announced-set, and a worker that waited  *)
(* for the guard while another announced (D,C) does not announce (D,C).    *)
(***************************************************************************)
C9_Serialized ==
    /\ \A t \in Workers : InApi(t) => mutex = t
    /\ \A t, u \in Workers : (t # u /\ InApi(t)) => ~InApi(u)
    /\ \A p \in DOMAIN hDiscovery : hDiscovery[p] >= 1 => p[2] \in Announced(p[1])
    /\ \A t \in Workers : WellFormed(t) =>
          \A p \in hDuring[t] :
              p[1] = IdOf(t) => Published(t, DiscoveryTopic(p[1], p[2])) = {}

\* a worker waited while another announced (D,C), then handled a request with (D,C)
C9_Witness ==
    \E t \in Workers : AtReturn(t) /\ status[t] = "Ok" /\
        \E vt \in Catalog :
            /\ <<IdOf(t), vt>> \in hDuring[t]
            /\ Entries(t, vt) # {}
            /\ Published(t, StateTopic(IdOf(t), vt)) # {}
            /\ hDiscovery[<<IdOf(t), vt>>] = 1

(***************************************************************************)
(* C10 as claimed: a request of a device whose first request carried       *)
(* another key returns Unauthorized, publishes nothing and leaves the      *)
(* registry as it was.                                                     *)
(***************************************************************************)
LaterWithOtherKey(t) ==
    /\ AtReturn(t)
    /\ <<"airrohr-", IdOf(t)>> \in DOMAIN hBefore[t]
    /\ hFirstKey[IdOf(t)] # request[t].key

C10_OtherKeyUnauthorized ==
    \A t \in Workers : LaterWithOtherKey(t) =>
        /\ status[t] = "Unauthorized"
        /\ log[t] = <<>>
        /\ devices = hBefore[t]

(***************************************************************************)
(* C10 amended: api reads no key.  The first request of a device is        *)
(* handled whatever its key, and so is every later request with another    *)
(* key: no request returns Unauthorized, it returns Ok exactly when none   *)
(* of its publishes failed and then has published the state of every       *)
(* supported entry.                                                        *)
(***************************************************************************)
C10_KeyNotChecked ==
    /\ \A t \in Workers : status[t] # "Unauthorized"
    /\ \A t \in Workers : AtReturn(t) =>
          /\ status[t] = "Ok" <=> Failed(t) = {}
          /\ status[t] = "Ok" =>
                \A vt \in Catalog :
                    Cardinality(Published(t, StateTopic(IdOf(t), vt)))
                        = Cardinality(Entries(t, vt))

\* a later request with another key was accepted and published
C10_Witness ==
    \E t \in Workers : LaterWithOtherKey(t) /\ status[t] = "Ok" /\ log[t] # <<>>

(***************************************************************************)
(* C11: a request whose body does not parse returns BadRequest, publishes  *)
(* nothing and leaves the registry as it was when the guard was taken.     *)
(***************************************************************************)
C11_MalformedNoEffect ==
    \A t \in Workers : (InApi(t) /\ request[t].data = Malformed) =>
        /\ pc[t] = "return"
        /\ status[t] = "BadRequest"
        /\ log[t] = <<>>
        /\ devices = hBefore[t]

\* a malformed request arrived when the registry already had a device with a channel
C11_Witness ==
    \E t \in Workers : pc[t] = "return" /\ request[t].data = Malformed /\
        \E n \in DOMAIN devices : devices[n].sensors # {}

(***************************************************************************)
(* C12: every publish of a request is, for one of its entries, either the  *)
(* discovery message on homeassistant/sensor/<device_name>/<value_type>/   *)
(* config at QoS 1, whose state_topic field is the state topic, or the     *)
(* state message on airrohr/<device_name>/<value_type> at QoS 0 with the   *)
(* entry's value as payload; device_name is "airrohr-" and the id.         *)
(***************************************************************************)
C12_TopicsAndQos ==
    \A t \in Workers : WellFormed(t) =>
        \A k \in 1..Len(log[t]) :
            \E j \in 1..Len(Sdv(t)) :
                LET m == log[t][k].msg
                    vt == Sdv(t)[j].value_type
                IN  \/ /\ m.topic = DiscoveryTopic(IdOf(t), vt)
                       /\ m.qos = 1
                       /\ m.payload.state_topic = StateTopic(IdOf(t), vt)
                       /\ m.payload.device.name = <<"airrohr-", IdOf(t)>>
                    \/ /\ m.topic = StateTopic(IdOf(t), vt)
                       /\ m.qos = 0
                       /\ m.payload = Sdv(t)[j].value

\* a request announced a value_type and sent two different readings of it
C12_Witness ==
    \E t \in Workers : AtReturn(t) /\ status[t] = "Ok" /\ Len(log[t]) = 3 /\
        /\ log[t][1].msg.qos = 1
        /\ log[t][2].msg.payload = "7.5"
        /\ log[t][3].msg.payload = "-70"
        /\ log[t][2].msg.topic = log[t][3].msg.topic

(***************************************************************************)
(* C13: the publishes of a request follow its entries in the order         *)
(* received: for each supported entry the discovery message when the       *)
(* value_type was not announced, then the state message, before anything   *)
(* of the next entry.  A request that returns Ok has made all of them.     *)
(***************************************************************************)
RECURSIVE ExpectedTopics(_, _, _)
ExpectedTopics(announced, sdv, id) ==
    IF sdv = <<>> THEN <<>>
    ELSE LET vt == Head(sdv).value_type
         IN  IF vt \notin Catalog THEN ExpectedTopics(announced, Tail(sdv), id)
             ELSE IF vt \notin announced
             THEN <<DiscoveryTopic(id, vt), StateTopic(id, vt)>>
                      \o ExpectedTopics(announced \cup {vt}, Tail(sdv), id)
             ELSE <<StateTopic(id, vt)>> \o ExpectedTopics(announced, Tail(sdv), id)

LogTopics(t) == [k \in 1..Len(log[t]) |-> log[t][k].msg.topic]
IsPrefix(p, s) == Len(p) <= Len(s) /\ \A k \in 1..Len(p) : p[k] = s[k]

C13_OrderReceived ==
    \A t \in Workers : WellFormed(t) =>
        LET expected == ExpectedTopics(AnnouncedIn(hBefore[t], IdOf(t)), Sdv(t), IdOf(t))
        IN  /\ IsPrefix(LogTopics(t), expected)
            /\ (pc[t] = "return" /\ status[t] = "Ok") => LogTopics(t) = expected

\* the new device abc123 reported [SDS_P2, signal]
C13_Witness ==
    \E t \in Workers : AtReturn(t) /\ status[t] = "Ok" /\
        /\ IdOf(t) = "abc123"
        /\ <<"airrohr-", "abc123">> \notin DOMAIN hBefore[t]
        /\ [k \in 1..Len(Sdv(t)) |-> Sdv(t)[k].value_type] = <<"SDS_P2", "signal">>
        /\ LogTopics(t) = << DiscoveryTopic("abc123", "SDS_P2"), StateTopic("abc123", "SDS_P2"),
                             DiscoveryTopic("abc123", "signal"), StateTopic("abc123", "signal") >>

(***************************************************************************)
(* C14: when a state publish fails, the value_types announced up to then,  *)
(* the failing entry's included, are in the announced-set and stay there;  *)
(* the same measurement sent again publishes no discovery message for      *)
(* them, discovery messages only for value_types not announced, and, when  *)
(* no publish fails, the state of every supported entry, and returns Ok.   *)
(***************************************************************************)
StateFailed(t) ==
    /\ AtReturn(t)
    /\ log[t] # <<>>
    /\ log[t][Len(log[t])].is_err
    /\ \E vt \in Catalog : log[t][Len(log[t])].msg.topic = StateTopic(IdOf(t), vt)

C14_PartialProgressKept ==
    /\ \A t \in Workers : StateFailed(t) =>
          \A vt \in Catalog :
              (\/ Published(t, DiscoveryTopic(IdOf(t), vt)) # {}
               \/ Published(t, StateTopic(IdOf(t), vt)) # {}) => vt \in Announced(IdOf(t))
    /\ hFailed.data # NoRecord =>
          hFailed.announced \subseteq Announced(hFailed.data.airrohr.esp8266id)
    /\ \A t \in Workers : (AtReturn(t) /\ request[t].data = hFailed.data) =>
          /\ \A vt \in hFailed.announced : Published(t, DiscoveryTopic(IdOf(t), vt)) = {}
          /\ \A vt \in AnnouncedIn(hBefore[t], IdOf(t)) :
                Published(t, DiscoveryTopic(IdOf(t), vt)) = {}
          /\ Failed(t) = {} =>
                /\ status[t] = "Ok"
                /\ \A vt \in Catalog :
                      /\ Cardinality(Published(t, StateTopic(IdOf(t), vt)))
                            = Cardinality(Entries(t, vt))
                      /\ (Entries(t, vt) # {} /\ vt \notin AnnouncedIn(hBefore[t], IdOf(t)))
                            => Cardinality(Published(t, DiscoveryTopic(IdOf(t), vt))) = 1

\* the resent measurement announced the value_type the failed request had not reached
C14_Witness ==
    \E t \in Workers : AtReturn(t) /\ request[t].data = hFailed.data /\ status[t] = "Ok" /\
        /\ hFailed.announced # {}
        /\ \E vt \in Catalog \ hFailed.announced : Published(t, DiscoveryTopic(IdOf(t), vt)) # {}
        /\ \E vt \in hFailed.announced : Published(t, StateTopic(IdOf(t), vt)) # {}

(***************************************************************************)
(* C15 as claimed: while a worker is in a publish call (advertise or       *)
(* send_data) it does not hold the mutex, and a worker waiting in lock()   *)
(* can take it.                                                            *)
(***************************************************************************)
InPublish(t) == pc[t] \in {"advertise", "send_data"}

C15_PublishOutsideLock ==
    \A t \in Workers : InPublish(t) =>
        /\ mutex # t
        /\ \A u \in Workers \ {t} : pc[u] = "lock" => ENABLED Lock(u)

(***************************************************************************)
(* C15 amended: the publish call is made with the mutex held.  api takes   *)
(* the one mutex on entry and holds it until it returns, so while a worker *)
(* is in a publish call no other worker, whatever its device, is past      *)
(* lock() or can take the mutex; the value_type is recorded under the same *)
(* guard when the publish returns.                                         *)
(***************************************************************************)
C15_PublishUnderLock ==
    \A t \in Workers : InPublish(t) =>
        /\ mutex = t
        /\ \A u \in Workers \ {t} : ~InApi(u) /\ ~ENABLED Lock(u)

\* a worker is in a publish for abc123 while another waits in lock() and def456 is known
C15_Witness ==
    \E t, u \in Workers :
        /\ t # u
        /\ InPublish(t) /\ IdOf(t) = "abc123"
        /\ pc[u] = "lock"
        /\ <<"airrohr-", "def456">> \in DOMAIN devices

(***************************************************************************)
(* C16: no step removes a device record or a value_type from an            *)
(* announced-set, and update_device leaves a known device's record as it   *)
(* is and gives an unknown device an empty one.                            *)
(***************************************************************************)
C16_RegistryOnlyGrows ==
    [][ /\ \A n \in DOMAIN devices :
              n \in DOMAIN devices' /\ devices[n].sensors \subseteq devices'[n].sensors
        /\ \A t \in Workers : (pc[t] = "update" /\ pc'[t] = "loop") =>
              LET n == <<"airrohr-", IdOf(t)>>
              IN  IF n \in DOMAIN devices
                  THEN devices' = devices
                  ELSE /\ DOMAIN devices' = DOMAIN devices \cup {n}
                       /\ devices'[n].sensors = {}
                       /\ \A d \in DOMAIN devices : devices'[d] = devices[d]
      ]_vars

\* update_device has just run for a device that had announced value_types
C16_Witness ==
    \E t \in Workers : pc[t] = "loop" /\ i[t] = 1 /\ log[t] = <<>> /\
        /\ <<"airrohr-", IdOf(t)>> \in DOMAIN hBefore[t]
        /\ hBefore[t][<<"airrohr-", IdOf(t)>>].sensors # {}
        /\ devices = hBefore[t]

(***************************************************************************)
(* C17: a value_type is in a device's announced-set only if a discovery    *)
(* publish for it succeeded, and a state message is published only for a   *)
(* (device, value_type) whose discovery publish succeeded before.          *)
(***************************************************************************)
C17_AnnouncedOnlyAfterSuccess ==
    /\ \A id \in Esp8266Ids, vt \in AllTypes :
          vt \in Announced(id) => <<id, vt>> \in hDiscoveryOk
    /\ \A t \in Workers : WellFormed(t) =>
          \A vt \in AllTypes :
              Published(t, StateTopic(IdOf(t), vt)) # {} => <<IdOf(t), vt>> \in hDiscoveryOk

(***************************************************************************)
(* C18: when a request returns Ok its device has a record and every        *)
(* supported value_type of the measurement is in the announced-set; an     *)
(* announced-set never holds a value_type that is not in the catalog.      *)
(***************************************************************************)
C18_AcceptedMeansAnnounced ==
    /\ \A t \in Workers : (AtReturn(t) /\ status[t] = "Ok") =>
          /\ <<"airrohr-", IdOf(t)>> \in DOMAIN devices
          /\ \A k \in 1..Len(Sdv(t)) :
                Sdv(t)[k].value_type \in Catalog => Sdv(t)[k].value_type \in Announced(IdOf(t))
    /\ \A n \in DOMAIN devices : devices[n].sensors \subseteq Catalog

\* an accepted request of a new device with a supported and an unsupported entry
C18_Witness ==
    \E t \in Workers : AtReturn(t) /\ status[t] = "Ok" /\
        /\ <<"airrohr-", IdOf(t)>> \notin DOMAIN hBefore[t]
        /\ \E k \in 1..Len(Sdv(t)) : Sdv(t)[k].value_type \in Catalog
        /\ \E k \in 1..Len(Sdv(t)) : Sdv(t)[k].value_type \notin Catalog

(***************************************************************************)
(* C19: whatever its outcome, a request of device D leaves the records of  *)
(* all other devices as they were when it took the guard, creates no       *)
(* record but D's, and publishes only on D's discovery and state topics.   *)
(***************************************************************************)
C19_OtherDevicesUntouched ==
    \A t \in Workers : (InApi(t) /\ WellFormed(t)) =>
        LET n == <<"airrohr-", IdOf(t)>>
        IN  /\ \A d \in (DOMAIN devices \cup DOMAIN hBefore[t]) \ {n} :
                  /\ d \in DOMAIN hBefore[t]
                  /\ d \in DOMAIN devices
                  /\ devices[d] = hBefore[t][d]
            /\ \A k \in 1..Len(log[t]) :
                  \E vt \in AllTypes :
                      log[t][k].msg.topic \in {DiscoveryTopic(IdOf(t), vt), StateTopic(IdOf(t), vt)}

\* a request changed its device's record while another device had announced value_types
C19_Witness ==
    \E t \in Workers : AtReturn(t) /\ log[t] # <<>> /\
        LET n == <<"airrohr-", IdOf(t)>>
        IN  /\ \E d \in DOMAIN hBefore[t] \ {n} : hBefore[t][d].sensors # {}
            /\ n \in DOMAIN hBefore[t]
            /\ devices[n] # hBefore[t][n]

====
